---- MODULE Spec2Model ----
(***************************************************************************)
(* KickIt backend: the Express handlers of AuthController.js and           *)
(* KickController.js, the verifyToken gate and the Mongoose schemas, as a  *)
(* state machine over the two collections (users, kicks) and the requests  *)
(* in flight.  A handler step is one store operation together with the     *)
(* synchronous code that runs up to the next await.                        *)
(*                                                                         *)
(* Request bodies are functions from the supplied field names to strings:  *)
(* a field that is not in the DOMAIN is undefined, "" is the empty string. *)
(***************************************************************************)
EXTENDS Integers, Sequences, FiniteSets, TLC

VARIABLES users, kicks, nextKickId, nextCommentId, reqs

vars == <<users, kicks, nextKickId, nextCommentId, reqs>>

(***************************************************************************)
(* Bounds of the model.                                                    *)
(***************************************************************************)
MaxUsers == 2
MaxKicks == 2
MaxComments == 2

\* Request slots: two sign-up / sign-in requests may be in flight together;
\* the kick and comment specifications below serve one request at a time.
AuthReqs == {"r1", "r2"}
KickReqs == {"r1"}

(***************************************************************************)
(* Generic helpers for bodies and documents.                               *)
(***************************************************************************)
Has(b, f) == f \in DOMAIN b

\* JavaScript truthiness of body[f] for string fields: undefined and "" are falsy.
Truthy(b, f) == Has(b, f) /\ b[f] # ""

\* $set / object assignment: the fields of upd replace or extend those of doc.
Merge(upd, doc) ==
    [f \in (DOMAIN doc) \cup (DOMAIN upd) |-> IF f \in DOMAIN upd THEN upd[f] ELSE doc[f]]

Restrict(b, fs) == [f \in (DOMAIN b) \cap fs |-> b[f]]

EmptyBody == [f \in {} |-> ""]

WellTyped(b, vals) == \A f \in DOMAIN b : b[f] \in vals[f]

\* All bodies that supply a subset of the fields fs, each field f drawn from vals[f].
BodiesOver(fs, vals) ==
    UNION { {b \in [d -> UNION {vals[f] : f \in d}] : WellTyped(b, vals)} : d \in SUBSET fs }

Response(st, key, val) == [status |-> st, key |-> key, val |-> val]

NoResponse == Response(0, "none", "")

\* Path parameters: Oid(n) is the 24-character hexadecimal string of ObjectId n,
\* BadId a string that is not 24 hexadecimal characters.
Oid(n) == [hex24 |-> TRUE, n |-> n]

BadId == [hex24 |-> FALSE, n |-> 0]

NoHeader == <<>>

Request(op, hdr, kickId, commentId, body) ==
    [op |-> op, hdr |-> hdr, kickId |-> kickId, commentId |-> commentId, body |-> body]

NoRequest == Request("none", NoHeader, BadId, BadId, EmptyBody)

\* What stays of a request once it is answered: the route and its parameters.
Answered(req) == [req EXCEPT !.hdr = NoHeader, !.body = EmptyBody]

NoLocals == [kind |-> "none"]

\* A request slot: pc is the handler's position, at the source line of the
\* statement that sent the response (0 while there is none), user is req.user,
\* loc the handler's local variables that live across an await.
IdleReq ==
    [pc |-> "idle", at |-> 0, req |-> NoRequest, user |-> EmptyBody, loc |-> NoLocals,
     resp |-> NoResponse]

CanReceive(r) == reqs[r].pc \in {"idle", "done"}

Receive(r, req) ==
    /\ CanReceive(r)
    /\ reqs' = [reqs EXCEPT ![r] = [IdleReq EXCEPT !.pc = "received", !.req = req]]
    /\ UNCHANGED <<users, kicks, nextKickId, nextCommentId>>

\* A path that ends without sending a response.
EndWithoutResponse(r, line, user, resp) ==
    reqs' = [reqs EXCEPT ![r] = [IdleReq EXCEPT !.pc = "ended", !.at = line,
                                               !.req = Answered(reqs[r].req), !.user = user]]

\* res.status(...).json(...): the request is answered.
Respond(r, line, user, resp) ==
    reqs' = [reqs EXCEPT ![r] = [IdleReq EXCEPT !.pc = "done", !.at = line,
                                               !.req = Answered(reqs[r].req),
                                               !.user = user, !.resp = resp]]

\* The handler goes on to its next await with locals loc.
Continue(r, pc, user, loc) ==
    reqs' = [reqs EXCEPT ![r] = [IdleReq EXCEPT !.pc = pc, !.req = Answered(reqs[r].req),
                                               !.user = user, !.loc = loc]]

Received(r, op) == reqs[r].pc = "received" /\ reqs[r].req.op = op

At(r, op, pc) == reqs[r].pc = pc /\ reqs[r].req.op = op

(***************************************************************************)
(* Identity tokens (jsonwebtoken).                                         *)
(***************************************************************************)
JWT_SECRET == "JWT_SECRET"

\* jwt.sign({ payload }, process.env.JWT_SECRET): no expiresIn option.
JwtSign(payload, secret) == [payload |-> payload, signedWith |-> secret]

\* A payload whose handle is taken from another field of the account.
TokenPayloadEmailAsName(user) == [username |-> user.email, _id |-> user._id]

\* jwt.verify succeeds iff the signature was made with the secret.
JwtVerifies(token, secret) == token.signedWith = secret

\* jwt.verify throws TokenExpiredError: the token carries an exp claim in the past.
JwtExpired(token) == Has(token, "exp") /\ token.exp = "past"

TokenPayload(user) == [username |-> user.username, _id |-> user._id]

(***************************************************************************)
(* Account directory: models/User.js as documented in the guide.           *)
(***************************************************************************)
\* bcrypt.hashSync / bcrypt.compareSync: a one-way hash that compare inverts.
HashSync(plain) == <<"bcrypt", plain>>

CompareSync(plain, hashed) == hashed = HashSync(plain)

\* A lookup that queries the wrong path.
UsersWithEmail(username) == {i \in 1..Len(users) : users[i].email = username}

\* User.findOne({ username }): the first matching document, or none.
UsersNamed(username) == {i \in 1..Len(users) : users[i].username = username}

FindOneIndex(username) == CHOOSE i \in UsersNamed(username) : \A j \in UsersNamed(username) : i <= j

\* The fields of userSchema that carry a unique index.
UserUniqueFields == {"email"}

\* The unique fields on which doc collides with a stored account (E11000 keyPattern).
DuplicateKeys(doc) ==
    {f \in UserUniqueFields : \E i \in 1..Len(users) : users[i][f] = doc[f]}

PublicUser(user) ==
    [_id |-> user._id, username |-> user.username, name |-> user.name, email |-> user.email]

SignupFields == {"username", "password", "name", "email"}

SignupValues ==
    [f \in SignupFields |->
        CASE f = "username" -> {"", "ann", "bob"}
          [] f = "password" -> {"pw1"}
          [] f = "name" -> {"Ann"}
          [] f = "email" -> {"a@x.io", "b@x.io"}]

SignupBodies == BodiesOver(SignupFields, SignupValues)

SigninFields == {"username", "password"}

SigninValues ==
    [f \in SigninFields |->
        CASE f = "username" -> {"", "ann", "bob"}
          [] f = "password" -> {"pw1", "pw2"}]

SigninBodies == BodiesOver(SigninFields, SigninValues)

MissingFields(body, required) == {f \in required : ~Truthy(body, f)}

UsernameTaken == Response(409, "err", "This username is already taken. Please choose a different username.")

\* A sign-in that tells the caller the account does not exist.
UserNotFound == Response(404, "err", "User not found.")

InvalidCredentialsNoUser ==
    Response(401, "err", "Invalid username or password. Please check your credentials and try again.")

InvalidCredentialsBadPassword ==
    Response(401, "err", "Invalid username or password. Please check your credentials and try again.")

AuthSuccess(st, user) ==
    Response(st, "token", [token |-> JwtSign(TokenPayload(user), JWT_SECRET), user |-> PublicUser(user)])

\* POST /auth/signup, up to and including `await User.findOne(...)`.
SignupStart(r) ==
    /\ Received(r, "signup")
    /\ UNCHANGED <<users, kicks, nextKickId, nextCommentId>>
    /\ LET body == reqs[r].req.body
       IN IF MissingFields(body, SignupFields) # {}
          THEN Respond(r, 26, EmptyBody,
                       Response(400, "err", <<"Missing required fields", MissingFields(body, SignupFields)>>))
          ELSE IF UsersNamed(body.username) # {}
          THEN Respond(r, 36, EmptyBody, UsernameTaken)
          ELSE Continue(r, "create", EmptyBody, [kind |-> "signup", body |-> body])

\* POST /auth/signup from `await User.create(...)` to the response.
SignupCreate(r) ==
    /\ At(r, "signup", "create")
    /\ UNCHANGED <<kicks, nextKickId, nextCommentId>>
    /\ LET body == reqs[r].loc.body
           user == [_id |-> Len(users) + 1, username |-> body.username, name |-> body.name,
                    email |-> body.email, hashedPassword |-> HashSync(body.password)]
       IN IF DuplicateKeys(user) # {}
          THEN /\ UNCHANGED users
               /\ Respond(r, 69, EmptyBody, Response(409, "err", <<"already registered", DuplicateKeys(user)>>))
          ELSE /\ users' = Append(users, user)
               /\ Respond(r, 54, EmptyBody, AuthSuccess(201, user))

\* POST /auth/signin: one store read, then the response.
Signin(r) ==
    /\ Received(r, "signin")
    /\ UNCHANGED <<users, kicks, nextKickId, nextCommentId>>
    /\ LET body == reqs[r].req.body
       IN IF MissingFields(body, SigninFields) # {}
          THEN Respond(r, 89, EmptyBody,
                       Response(400, "err", "Please provide both username and password to sign in."))
          ELSE IF UsersNamed(body.username) = {}
          THEN Respond(r, 97, EmptyBody, InvalidCredentialsNoUser)
          ELSE LET user == users[FindOneIndex(body.username)]
               IN IF ~CompareSync(body.password, user.hashedPassword)
                  THEN Respond(r, 110, EmptyBody, InvalidCredentialsBadPassword)
                  ELSE Respond(r, 121, EmptyBody, AuthSuccess(200, user))

AuthRequests ==
    {Request("signup", NoHeader, BadId, BadId, b) : b \in SignupBodies}
        \cup {Request("signin", NoHeader, BadId, BadId, b) : b \in SigninBodies}

\* Accounts are never deleted, so the directory is capped where sign-ups are accepted.
ReceiveAuth(r) ==
    \E req \in AuthRequests :
        /\ req.op = "signup" =>
              Len(users) + Cardinality({q \in AuthReqs : reqs[q].pc \in {"received", "create"}
                                                             /\ reqs[q].req.op = "signup"}) < MaxUsers
        /\ Receive(r, req)

(***************************************************************************)
(* Request authentication gate: middleware/verifyToken.js.                 *)
(* A header is the list of its space-separated parts.                      *)
(***************************************************************************)
TokenOf(user) == JwtSign(TokenPayload(user), JWT_SECRET)

Bearer(token) == <<"Bearer", token>>

\* req.headers.authorization.split(" ")[1] is a non-empty string (the parts of
\* a header are non-empty here: no header has two spaces in a row).
HasTokenPart(hdr) == Len(hdr) >= 2

\* A gate that does not verify the signature of the token.
GateTrustsSignature(hdr) ==
    IF hdr = NoHeader \/ ~HasTokenPart(hdr) THEN TRUE ELSE JwtExpired(hdr[2])

GateRejects(hdr) ==
    IF hdr = NoHeader \/ ~HasTokenPart(hdr)
    THEN TRUE
    ELSE ~JwtVerifies(hdr[2], JWT_SECRET) \/ JwtExpired(hdr[2])

GateResponse(hdr) ==
    IF hdr = NoHeader
    THEN Response(401, "err", "No authentication token provided. Please sign in.")
    ELSE IF ~HasTokenPart(hdr)
    THEN Response(401, "err", "Invalid authentication format. Please sign in again.")
    ELSE IF ~JwtVerifies(hdr[2], JWT_SECRET)
    THEN Response(401, "err", "Invalid authentication token. Please sign in again.")
    ELSE Response(401, "err", "Your session has expired. Please sign in again.")

GateLine(hdr) ==
    IF hdr = NoHeader THEN 6
    ELSE IF ~HasTokenPart(hdr) THEN 14
    ELSE IF ~JwtVerifies(hdr[2], JWT_SECRET) THEN 25
    ELSE 30

\* req.user = decoded.payload
GateUser(hdr) == hdr[2].payload

\* router.use(verifyToken): a rejected request is answered by the gate.
Rejected(r) ==
    /\ reqs[r].pc = "received" /\ reqs[r].req.op \notin {"signup", "signin"}
    /\ GateRejects(reqs[r].req.hdr)
    /\ Respond(r, GateLine(reqs[r].req.hdr), EmptyBody, GateResponse(reqs[r].req.hdr))
    /\ UNCHANGED <<users, kicks, nextKickId, nextCommentId>>

(***************************************************************************)
(* models/Kick.js: kickSchema and commentSchema.                           *)
(***************************************************************************)
CategoryEnum == {"Travel", "Hobbies", "Sports", "Skills", "Experiences", "Other"}

StatusEnum == {"Open", "In Progress", "Completed"}

StatusDefault == "Open"

KickRequiredPaths == {"title", "description", "category", "status"}

\* A schema whose category path has no enum.
KickEnumsStatusOnly == [status |-> StatusEnum]

KickEnums == [category |-> CategoryEnum, status |-> StatusEnum]

\* The paths of doc, among paths, that fail a `required` or `enum` validator.
InvalidPaths(doc, paths) ==
    {f \in paths \cap KickRequiredPaths : ~Truthy(doc, f)}
        \cup {f \in paths \cap DOMAIN KickEnums : Has(doc, f) /\ doc[f] \notin KickEnums[f]}

\* new Date(v) is an Invalid Date: the value cannot be cast to the Date type.
DateCastFails(v) == v = "not a date"

DatePaths == {"completionDate", "targetDate"}

\* The paths of doc, among paths, whose value cannot be cast to the path's type.
CastFailures(doc, paths) ==
    {f \in paths \cap DatePaths : Has(doc, f) /\ DateCastFails(doc[f])}

KickPaths == {"title", "description", "location", "category", "status", "completionDate", "targetDate"}

\* The schema defaults applied to a new document.
WithDefaults(data) ==
    IF Has(data, "status") THEN data ELSE Merge([status |-> StatusDefault], data)

IsObjectIdFormat(p) == p.hex24

KickExists(n) == n \in DOMAIN kicks

\* Kick.findById(kickId) found a document.
Found(kickId) == KickExists(kickId.n)

ValidationFailed(paths) == Response(400, "error", <<"Validation failed", paths>>)

InvalidKickId == Response(400, "error", "Invalid kick ID format.")

(***************************************************************************)
(* controllers/KickController.js: the kick routes.                         *)
(***************************************************************************)
\* A handler that takes the owner from the body when the body names one.
KickDataAuthorFromBody(user, body) == IF Has(body, "author") THEN body.author ELSE user._id

\* The owner stored on a new kick.
KickDataAuthor(user, body) == user._id

\* kickData: title, category, the owner and the optional fields that are truthy.
KickData(user, body) ==
    Merge([author |-> KickDataAuthor(user, body)],
          Restrict(body, {"title", "category"}
                         \cup {f \in {"description", "location", "targetDate", "status"} : Truthy(body, f)}))

\* The document Kick.create(kickData) inserts.
\* createdAt is the timestamp Mongoose sets on insert ({ timestamps: true }); the
\* clock is the count of kicks created so far, which the store's ids also follow.
NewKick(data, id) ==
    Merge([_id |-> id, comments |-> <<>>, version |-> 0, createdAt |-> id], WithDefaults(data))

\* The paths on which the validation of Kick.create fails: a value that cannot
\* be cast is reported in the ValidationError with the failed validators.
CreateInvalid(data) ==
    InvalidPaths(WithDefaults(data), KickPaths) \cup CastFailures(data, KickPaths)

\* POST /kicks
KickCreate(r) ==
    /\ Received(r, "kickCreate")
    /\ ~GateRejects(reqs[r].req.hdr)
    /\ UNCHANGED <<users, nextCommentId>>
    /\ LET user == GateUser(reqs[r].req.hdr)
           body == reqs[r].req.body
           data == KickData(user, body)
       IN IF MissingFields(body, {"title", "category"}) # {}
          THEN /\ Respond(r, 19, user, Response(400, "error",
                              <<"Missing required fields", MissingFields(body, {"title", "category"})>>))
               /\ UNCHANGED <<kicks, nextKickId>>
          ELSE IF CreateInvalid(data) # {}
          THEN /\ Respond(r, 45, user, ValidationFailed(CreateInvalid(data)))
               /\ UNCHANGED <<kicks, nextKickId>>
          ELSE /\ kicks' = [n \in DOMAIN kicks \cup {nextKickId} |->
                               IF n = nextKickId THEN NewKick(data, nextKickId) ELSE kicks[n]]
               /\ nextKickId' = nextKickId + 1
               /\ Respond(r, 39, user, Response(201, "kick", NewKick(data, nextKickId)))

\* A serialisation of the account document as stored.
UserRaw(id) ==
    IF id \in 1..Len(users) THEN users[id] ELSE EmptyBody

\* toJSON of a populated account: the guide's transform deletes hashedPassword.
UserJSON(id) ==
    IF id \in 1..Len(users) THEN PublicUser(users[id]) ELSE EmptyBody

\* .populate(["author", "comments.author"])
Populated(doc) ==
    [doc EXCEPT !.author = UserJSON(doc.author),
                !.comments = [i \in 1..Len(doc.comments) |->
                                 [doc.comments[i] EXCEPT !.author = UserJSON(doc.comments[i].author)]]]

\* GET /kicks/:kickId
KickGet(r) ==
    /\ Received(r, "kickGet")
    /\ ~GateRejects(reqs[r].req.hdr)
    /\ UNCHANGED <<users, kicks, nextKickId, nextCommentId>>
    /\ LET user == GateUser(reqs[r].req.hdr)
           kickId == reqs[r].req.kickId
       IN IF ~IsObjectIdFormat(kickId)
          THEN Respond(r, 77, user, InvalidKickId)
          ELSE IF ~Found(kickId)
          THEN Respond(r, 86, user, Response(404, "error", "Kick not found. It may have been deleted."))
          ELSE Respond(r, 91, user, Response(200, "kick", Populated(kicks[kickId.n])))

\* A query without the owner filter.
FindAll(id) == DOMAIN kicks

\* Kick.find({ author: req.user._id }): the ids of the matching documents.
FindByAuthor(id) == {n \in DOMAIN kicks : kicks[n].author = id}

\* A sort that puts the oldest first.
RECURSIVE SortByCreatedAtAsc(_)
SortByCreatedAtAsc(ns) ==
    IF ns = {}
    THEN <<>>
    ELSE LET oldest == CHOOSE n \in ns : \A m \in ns : kicks[n].createdAt <= kicks[m].createdAt
         IN <<oldest>> \o SortByCreatedAtAsc(ns \ {oldest})

\* .sort({ createdAt: "desc" }) of the documents with ids ns.
RECURSIVE SortByCreatedAtDesc(_)
SortByCreatedAtDesc(ns) ==
    IF ns = {}
    THEN <<>>
    ELSE LET newest == CHOOSE n \in ns : \A m \in ns : kicks[n].createdAt >= kicks[m].createdAt
         IN <<newest>> \o SortByCreatedAtDesc(ns \ {newest})

\* .populate("author", "username"): the account with its _id and username only.
AuthorUsername(id) ==
    IF id \in 1..Len(users) THEN [_id |-> users[id]._id, username |-> users[id].username] ELSE EmptyBody

\* GET /kicks
KickList(r) ==
    /\ Received(r, "kickList")
    /\ ~GateRejects(reqs[r].req.hdr)
    /\ UNCHANGED <<users, kicks, nextKickId, nextCommentId>>
    /\ LET user == GateUser(reqs[r].req.hdr)
           found == SortByCreatedAtDesc(FindByAuthor(user._id))
       IN Respond(r, 61, user,
                  Response(200, "kicks",
                           [i \in 1..Len(found) |->
                               [kicks[found[i]] EXCEPT !.author = AuthorUsername(@)]]))

\* An ownership test with the negation lost.
IsOwnerInverted(kick, user) == kick.author # user._id

\* kick.author.equals(req.user._id)
IsOwner(kick, user) == kick.author = user._id

\* DELETE /kicks/:kickId, up to and including `await Kick.findById(kickId)`.
KickDeleteStart(r) ==
    /\ Received(r, "kickDelete")
    /\ ~GateRejects(reqs[r].req.hdr)
    /\ UNCHANGED <<users, kicks, nextKickId, nextCommentId>>
    /\ LET user == GateUser(reqs[r].req.hdr)
           kickId == reqs[r].req.kickId
       IN IF ~IsObjectIdFormat(kickId)
          THEN Respond(r, 106, user, InvalidKickId)
          ELSE IF ~Found(kickId)
          THEN Respond(r, 112, user, Response(404, "error", "Kick not found. It may have already been deleted."))
          ELSE IF ~IsOwner(kicks[kickId.n], user)
          THEN Respond(r, 118, user, Response(403, "error", "You do not have permission to delete this kick."))
          ELSE Continue(r, "delete", user, NoLocals)

\* A delete that removes nothing.
DeleteNothing(n) == kicks

\* Kick.findByIdAndDelete(kickId): the document and its embedded comments go.
DeleteById(n) == [m \in DOMAIN kicks \ {n} |-> kicks[m]]

\* DELETE /kicks/:kickId from `await Kick.findByIdAndDelete(kickId)` to the response.
KickDeleteFinish(r) ==
    /\ At(r, "kickDelete", "delete")
    /\ kicks' = DeleteById(reqs[r].req.kickId.n)
    /\ Respond(r, 125, reqs[r].user, Response(200, "message", "Kick deleted successfully"))
    /\ UNCHANGED <<users, nextKickId, nextCommentId>>

\* A handler that also reads `author` from the body.
PutFieldsWithAuthor ==
    {"title", "description", "category", "location", "targetDate", "status", "author"}

\* The fields PUT /kicks/:kickId reads from the body.
PutFields == {"title", "description", "category", "location", "targetDate", "status"}

\* An update that passes the whole body on.
UpdateWholeBody(body) == body

\* updateFields: the fields of the body that are not undefined.
UpdateFields(body) == Restrict(body, PutFields)

\* PUT /kicks/:kickId, up to and including `await Kick.findById(kickId)`.
KickPutStart(r) ==
    /\ Received(r, "kickPut")
    /\ ~GateRejects(reqs[r].req.hdr)
    /\ UNCHANGED <<users, kicks, nextKickId, nextCommentId>>
    /\ LET user == GateUser(reqs[r].req.hdr)
           kickId == reqs[r].req.kickId
           body == reqs[r].req.body
       IN IF ~IsObjectIdFormat(kickId)
          THEN Respond(r, 140, user, InvalidKickId)
          ELSE IF DOMAIN UpdateFields(body) = {}
          THEN Respond(r, 152, user, Response(400, "error", "Please provide at least one field to update"))
          ELSE IF ~Found(kickId)
          THEN Respond(r, 161, user, Response(404, "error", "Kick not found. It may have been deleted."))
          ELSE IF ~IsOwner(kicks[kickId.n], user)
          THEN Respond(r, 167, user, Response(403, "error", "You do not have permission to edit this kick."))
          ELSE Continue(r, "update", user, [kind |-> "kickPut", updateFields |-> UpdateFields(body)])

\* PUT /kicks/:kickId from `await Kick.findByIdAndUpdate(...)` to the response:
\* the update is cast (a value that cannot be cast throws CastError, which the
\* catch block answers with 500), the update validators run on the supplied
\* paths, then the store applies $set.
KickPutFinish(r) ==
    /\ At(r, "kickPut", "update")
    /\ UNCHANGED <<users, nextKickId, nextCommentId>>
    /\ LET n == reqs[r].req.kickId.n
           upd == reqs[r].loc.updateFields
       IN IF CastFailures(upd, DOMAIN upd) # {}
          THEN /\ Respond(r, 198, reqs[r].user,
                          Response(500, "error", "Failed to update kick. Please try again."))
               /\ UNCHANGED kicks
          ELSE IF InvalidPaths(upd, DOMAIN upd) # {}
          THEN /\ Respond(r, 193, reqs[r].user, ValidationFailed(InvalidPaths(upd, DOMAIN upd)))
               /\ UNCHANGED kicks
          ELSE IF ~KickExists(n)
          THEN /\ Respond(r, 187, reqs[r].user, Response(200, "null", ""))
               /\ UNCHANGED kicks
          ELSE /\ kicks' = [kicks EXCEPT ![n] = Merge(upd, kicks[n])]
               /\ Respond(r, 187, reqs[r].user, Response(200, "kick", Merge(upd, kicks[n])))

(***************************************************************************)
(* controllers/KickController.js: the comment routes.  A comment text is   *)
(* the sequence of its characters.                                         *)
(***************************************************************************)
IsSpace(c) == c = " "

RECURSIVE TrimStart(_)
TrimStart(t) == IF t # <<>> /\ IsSpace(Head(t)) THEN TrimStart(Tail(t)) ELSE t

RECURSIVE TrimEnd(_)
TrimEnd(t) == IF t # <<>> /\ IsSpace(t[Len(t)]) THEN TrimEnd(SubSeq(t, 1, Len(t) - 1)) ELSE t

\* A trim of the leading whitespace only.
TrimLeft(t) == TrimStart(t)

\* String.prototype.trim
Trim(t) == TrimEnd(TrimStart(t))

\* A test of the presence of the text only.
TextAbsent(body) == ~Has(body, "text")

\* !text || !text.trim()
TextMissing(body) == ~Has(body, "text") \/ body.text = <<>> \/ Trim(body.text) = <<>>

\* kick.comments.id(commentId): the position of the comment, 0 when there is none.
CommentIndex(kick, commentId) ==
    IF commentId.hex24 /\ \E i \in 1..Len(kick.comments) : kick.comments[i]._id = commentId.n
    THEN CHOOSE i \in 1..Len(kick.comments) : kick.comments[i]._id = commentId.n
    ELSE 0

\* A handler that lets the owner of the kick edit any comment on it.
OwnerOrCommentAuthor(kick, i, user) ==
    kick.comments[i].author = user._id \/ kick.author = user._id

\* comment.author.equals(req.user._id), comment being kick.comments[i].
IsCommentAuthor(kick, i, user) == kick.comments[i].author = user._id

\* kick.save() reached a stored document: Mongoose fails with
\* DocumentNotFoundError otherwise, and with VersionError when a positional
\* $set finds another version than the one it read.
SaveMatches(n, loc) ==
    /\ KickExists(n)
    /\ loc.kind = "set" => kicks[n].version = loc.version

\* The document in the handler's memory when it calls save(): the document it
\* read, with the change it made to the paths of the kick itself.
LocalDoc(loc) ==
    IF loc.kind = "status" THEN Merge([status |-> loc.status], loc.doc) ELSE loc.doc

\* The paths on which the validation that save() runs first fails: save()
\* validates the paths that were loaded and the required paths that are absent.
SaveInvalid(loc) == InvalidPaths(LocalDoc(loc), KickPaths)

\* The document has no modified path: save() sends no update.
Unmodified(loc) == loc.kind \in {"set", "status"} /\ ~loc.modified

RemoveAt(seq, i) == SubSeq(seq, 1, i - 1) \o SubSeq(seq, i + 1, Len(seq))

\* $pull: { comments: { _id } }
Pull(comments, id) ==
    IF \E i \in 1..Len(comments) : comments[i]._id = id
    THEN RemoveAt(comments, CHOOSE i \in 1..Len(comments) : comments[i]._id = id)
    ELSE comments

\* A save that writes the array back as it was read: the comments that were
\* created after this one and saved before it are lost.
SavedWholeArray(doc, loc) ==
    CASE loc.kind = "push" ->
            [doc EXCEPT !.comments = SelectSeq(@, LAMBDA c : c._id < loc.comment._id)
                                         \o <<loc.comment>>,
                        !.version = @ + 1]
      [] loc.kind = "pull" ->
            [doc EXCEPT !.comments = Pull(@, loc.commentId), !.version = @ + 1]
      [] loc.kind = "set" ->
            [doc EXCEPT !.comments[loc.index].text = loc.text]
      [] loc.kind = "status" ->
            [doc EXCEPT !.status = loc.status]

\* A save that writes back the document as it was read, with the change made to
\* it: what was written to the other fields since the read is lost.
SavedReadCopy(doc, loc) ==
    CASE loc.kind = "push" ->
            [loc.doc EXCEPT !.comments = Append(doc.comments, loc.comment),
                            !.version = doc.version + 1]
      [] loc.kind = "pull" ->
            [loc.doc EXCEPT !.comments = Pull(doc.comments, loc.commentId),
                            !.version = doc.version + 1]
      [] loc.kind = "set" ->
            [doc EXCEPT !.comments[loc.index].text = loc.text]
      [] loc.kind = "status" ->
            [loc.doc EXCEPT !.status = loc.status]

\* A status change that also stamps the completion date.
SavedStampsCompletion(doc, loc) ==
    CASE loc.kind = "push" ->
            [doc EXCEPT !.comments = Append(@, loc.comment), !.version = @ + 1]
      [] loc.kind = "pull" ->
            [doc EXCEPT !.comments = Pull(@, loc.commentId), !.version = @ + 1]
      [] loc.kind = "set" ->
            [doc EXCEPT !.comments[loc.index].text = loc.text]
      [] loc.kind = "status" ->
            Merge([status |-> loc.status, completionDate |-> "2026-12-31"], doc)

\* The stored document after the atomic update that save() sends.
Saved(doc, loc) ==
    CASE loc.kind = "push" ->
            [doc EXCEPT !.comments = Append(@, loc.comment), !.version = @ + 1]
      [] loc.kind = "pull" ->
            [doc EXCEPT !.comments = Pull(@, loc.commentId), !.version = @ + 1]
      [] loc.kind = "set" ->
            [doc EXCEPT !.comments[loc.index].text = loc.text]
      [] loc.kind = "status" ->
            [doc EXCEPT !.status = loc.status]

\* An update that inserts the document when no stored document matches.
UpsertOne(n, loc) ==
    IF KickExists(n)
    THEN IF SaveMatches(n, loc) THEN [kicks EXCEPT ![n] = Saved(kicks[n], loc)] ELSE kicks
    ELSE [m \in DOMAIN kicks \cup {n} |-> IF m = n THEN LocalDoc(loc) ELSE kicks[m]]

\* The collection after the updateOne({ _id, ... }) that save() sends: the
\* update changes the stored document it matches and nothing when it matches none.
UpdateOne(n, loc) ==
    IF SaveMatches(n, loc) THEN [kicks EXCEPT ![n] = Saved(kicks[n], loc)] ELSE kicks

\* How save() can end: "invalid" (ValidationError, before anything is sent),
\* "ok", or "failed" (VersionError, DocumentNotFoundError).  When nothing is
\* modified no update is sent; whether save() then looks for the document, and
\* fails when it is gone, depends on the Mongoose release.
SaveOutcomes(n, loc) ==
    IF SaveInvalid(loc) # {} THEN {"invalid"}
    ELSE IF Unmodified(loc) THEN (IF KickExists(n) THEN {"ok"} ELSE {"ok", "failed"})
    ELSE IF SaveMatches(n, loc) THEN {"ok"}
    ELSE {"failed"}

\* POST /kicks/:kickId/comments, up to and including `await Kick.findById(kickId)`
\* and the push of the new subdocument, which is given its _id.
CommentPostStart(r) ==
    /\ Received(r, "commentPost")
    /\ ~GateRejects(reqs[r].req.hdr)
    /\ UNCHANGED <<users, kicks, nextKickId>>
    /\ LET user == GateUser(reqs[r].req.hdr)
           kickId == reqs[r].req.kickId
           body == reqs[r].req.body
       IN IF ~IsObjectIdFormat(kickId)
          THEN Respond(r, 209, user, InvalidKickId) /\ UNCHANGED nextCommentId
          ELSE IF TextMissing(body)
          THEN /\ Respond(r, 213, user, Response(400, "error", "Comment text is required."))
               /\ UNCHANGED nextCommentId
          ELSE IF ~Found(kickId)
          THEN /\ Respond(r, 221, user, Response(404, "error", "Kick not found. Cannot add comment."))
               /\ UNCHANGED nextCommentId
          ELSE /\ nextCommentId' = nextCommentId + 1
               /\ Continue(r, "save", user,
                           [kind |-> "push", doc |-> kicks[kickId.n],
                            comment |-> [_id |-> nextCommentId, text |-> Trim(body.text),
                                         author |-> user._id]])

\* DELETE /kicks/:kickId/comments/:commentId, up to `kick.comments.pull(commentId)`.
CommentDeleteStart(r) ==
    /\ Received(r, "commentDelete")
    /\ ~GateRejects(reqs[r].req.hdr)
    /\ UNCHANGED <<users, kicks, nextKickId, nextCommentId>>
    /\ LET user == GateUser(reqs[r].req.hdr)
           kickId == reqs[r].req.kickId
           commentId == reqs[r].req.commentId
       IN IF ~IsObjectIdFormat(kickId)
          THEN Respond(r, 247, user, InvalidKickId)
          ELSE IF ~Found(kickId)
          THEN Respond(r, 252, user, Response(404, "error", "Kick not found. Cannot delete comment."))
          ELSE IF CommentIndex(kicks[kickId.n], commentId) = 0
          THEN Respond(r, 259, user, Response(404, "error", "Comment not found. It may have already been deleted."))
          ELSE IF ~IsCommentAuthor(kicks[kickId.n], CommentIndex(kicks[kickId.n], commentId), user)
          THEN Respond(r, 265, user, Response(403, "error", "You can only delete your own comments."))
          ELSE Continue(r, "save", user,
                        [kind |-> "pull", doc |-> kicks[kickId.n], commentId |-> commentId.n])

\* PUT /kicks/:kickId/comments/:commentId, up to `comment.text = text.trim()`.
CommentPutStart(r) ==
    /\ Received(r, "commentPut")
    /\ ~GateRejects(reqs[r].req.hdr)
    /\ UNCHANGED <<users, kicks, nextKickId, nextCommentId>>
    /\ LET user == GateUser(reqs[r].req.hdr)
           kickId == reqs[r].req.kickId
           commentId == reqs[r].req.commentId
           body == reqs[r].req.body
       IN IF ~IsObjectIdFormat(kickId)
          THEN Respond(r, 289, user, InvalidKickId)
          ELSE IF TextMissing(body)
          THEN Respond(r, 293, user, Response(400, "error", "Comment text is required."))
          ELSE IF ~Found(kickId)
          THEN Respond(r, 301, user, Response(404, "error", "Kick not found. Cannot update comment."))
          ELSE IF CommentIndex(kicks[kickId.n], commentId) = 0
          THEN Respond(r, 308, user, Response(404, "error", "Comment not found. It may have been deleted."))
          ELSE LET i == CommentIndex(kicks[kickId.n], commentId)
                   comment == kicks[kickId.n].comments[i]
               IN IF ~IsCommentAuthor(kicks[kickId.n], i, user)
                  THEN Respond(r, 314, user, Response(403, "error", "You can only edit your own comments."))
                  ELSE Continue(r, "save", user,
                                [kind |-> "set", doc |-> kicks[kickId.n],
                                 index |-> i, text |-> Trim(body.text),
                                 version |-> kicks[kickId.n].version,
                                 modified |-> Trim(body.text) # comment.text,
                                 comment |-> [comment EXCEPT !.text = Trim(body.text)]])

SaveResponse(r) ==
    LET loc == reqs[r].loc
    IN CASE loc.kind = "push" ->
               Response(201, "comment", [text |-> loc.comment.text, author |-> loc.comment.author])
         [] loc.kind = "pull" -> Response(200, "message", "Comment deleted successfully")
         [] loc.kind = "set" -> Response(200, "comment", loc.comment)
         [] loc.kind = "status" -> Response(200, "kick", LocalDoc(loc))

SaveFailure(r) ==
    LET loc == reqs[r].loc
    IN CASE loc.kind = "push" -> Response(500, "error", "Failed to add comment. Please try again.")
         [] loc.kind = "pull" -> Response(500, "error", "Failed to delete comment. Please try again.")
         [] loc.kind = "set" -> Response(500, "error", "Failed to update comment. Please try again.")
         [] loc.kind = "status" -> Response(500, "error", "Failed to update kick status. Please try again.")

SaveLine(r, ok) ==
    LET kind == reqs[r].loc.kind
    IN CASE kind = "push" -> IF ok THEN 234 ELSE 237
         [] kind = "pull" -> IF ok THEN 273 ELSE 276
         [] kind = "set" -> IF ok THEN 322 ELSE 325
         [] kind = "status" -> IF ok THEN 364 ELSE 374

\* The comment routes from `await kick.save()` to the response: their catch
\* blocks answer 500 to every error, a ValidationError included.
CommentSave(r) ==
    /\ reqs[r].pc = "save" /\ reqs[r].req.op \in {"commentPost", "commentDelete", "commentPut"}
    /\ UNCHANGED <<users, nextKickId, nextCommentId>>
    /\ LET n == reqs[r].req.kickId.n
           loc == reqs[r].loc
       IN \E outcome \in SaveOutcomes(n, loc) :
             IF outcome = "ok"
             THEN /\ kicks' = (IF Unmodified(loc) THEN kicks ELSE UpdateOne(n, loc))
                  /\ Respond(r, SaveLine(r, TRUE), reqs[r].user, SaveResponse(r))
             ELSE /\ kicks' = (IF outcome = "invalid" \/ Unmodified(loc) THEN kicks ELSE UpdateOne(n, loc))
                  /\ Respond(r, SaveLine(r, FALSE), reqs[r].user, SaveFailure(r))

\* PATCH /kicks/:kickId/status, up to `kick.status = status`.
KickPatchStart(r) ==
    /\ Received(r, "kickPatch")
    /\ ~GateRejects(reqs[r].req.hdr)
    /\ UNCHANGED <<users, kicks, nextKickId, nextCommentId>>
    /\ LET user == GateUser(reqs[r].req.hdr)
           kickId == reqs[r].req.kickId
           body == reqs[r].req.body
       IN IF ~IsObjectIdFormat(kickId)
          THEN Respond(r, 338, user, InvalidKickId)
          ELSE IF ~Truthy(body, "status")
          THEN Respond(r, 342, user, Response(400, "error", "Status is required."))
          ELSE IF ~Found(kickId)
          THEN Respond(r, 350, user, Response(404, "error", "Kick not found. Cannot update status."))
          ELSE IF ~IsOwner(kicks[kickId.n], user)
          THEN Respond(r, 356, user,
                       Response(403, "error", "You do not have permission to update this kick's status."))
          ELSE Continue(r, "save", user,
                        [kind |-> "status", doc |-> kicks[kickId.n], status |-> body.status,
                         modified |-> body.status # kicks[kickId.n].status])

\* PATCH /kicks/:kickId/status from `await kick.save()` to the response: the
\* catch block answers 400 to a ValidationError.
KickPatchSave(r) ==
    /\ At(r, "kickPatch", "save")
    /\ UNCHANGED <<users, nextKickId, nextCommentId>>
    /\ LET n == reqs[r].req.kickId.n
           loc == reqs[r].loc
       IN \E outcome \in SaveOutcomes(n, loc) :
             CASE outcome = "ok" ->
                     /\ kicks' = (IF Unmodified(loc) THEN kicks ELSE UpdateOne(n, loc))
                     /\ Respond(r, SaveLine(r, TRUE), reqs[r].user, SaveResponse(r))
               [] outcome = "invalid" ->
                     /\ UNCHANGED kicks
                     /\ Respond(r, 369, reqs[r].user,
                                Response(400, "error", "Invalid status value. Status must be 'Open' or 'Completed'."))
               [] outcome = "failed" ->
                     /\ kicks' = (IF Unmodified(loc) THEN kicks ELSE UpdateOne(n, loc))
                     /\ Respond(r, SaveLine(r, FALSE), reqs[r].user, SaveFailure(r))

(***************************************************************************)
(* The requests of the kick and comment specifications.                    *)
(***************************************************************************)
NoKicks == [k \in {} |-> EmptyBody]

Account(id, username, email) ==
    [_id |-> id, username |-> username, name |-> "Ann", email |-> email,
     hashedPassword |-> HashSync("pw1")]

\* The directory after ann and bob have signed up.
RegisteredUsers == <<Account(1, "ann", "a@x.io"), Account(2, "bob", "b@x.io")>>

ValidHeaders == {Bearer(TokenOf(RegisteredUsers[i])) : i \in 1..Len(RegisteredUsers)}

ForgedToken == JwtSign(TokenPayload(RegisteredUsers[1]), "guessed")

\* A token signed with the secret whose exp claim has passed.
ExpiredToken == Merge([exp |-> "past"], TokenOf(RegisteredUsers[1]))

InvalidHeaders == {NoHeader, <<"Bearer">>, Bearer(ForgedToken), Bearer(ExpiredToken)}

\* Headers that are not `Bearer <token>` and whose second part is a valid token:
\* another scheme word, and a third part.
LooseHeaders ==
    {<<"Basic", TokenOf(RegisteredUsers[1])>>, <<"Bearer", TokenOf(RegisteredUsers[2]), "x">>}

KickIdParams == {Oid(n) : n \in 1..MaxKicks} \cup {BadId}

CommentIdParams == {Oid(n) : n \in 1..MaxComments} \cup {BadId}

FullKick == [title |-> "Test Kick", category |-> "Travel", description |-> "Fun"]

CreateBodies ==
    {[title |-> "Test Kick", category |-> "Travel"],
     [title |-> "Learn Rock Climbing", category |-> "Adventure"],
     FullKick,
     [title |-> "For ann", category |-> "Travel", description |-> "Fun", author |-> 1],
     [title |-> "For bob", category |-> "Travel", description |-> "Fun", author |-> 2],
     Merge([status |-> "Completed"], FullKick),
     Merge([category |-> "Invalid"], FullKick),
     Merge([status |-> "Invalid"], FullKick),
     [category |-> "Travel", description |-> "Fun"],
     [title |-> "Test Kick", description |-> "Fun"]}

PutBodies ==
    {EmptyBody,
     [completionDate |-> "2026-12-31"],
     [author |-> 2],
     [title |-> "New Title"],
     [title |-> ""],
     [category |-> "Invalid"],
     [title |-> "New Title", completionDate |-> "2026-12-31"]}

\* Bodies of PATCH /kicks/:kickId/status.
PatchBodies ==
    {EmptyBody, [status |-> "In Progress"], [status |-> "Completed"], [status |-> "Invalid"]}

KickRequests ==
    {Request("kickCreate", h, BadId, BadId, b) : h \in ValidHeaders, b \in CreateBodies}
        \cup {Request("kickGet", h, k, BadId, EmptyBody) : h \in ValidHeaders, k \in KickIdParams}
        \cup {Request("kickDelete", h, k, BadId, EmptyBody) : h \in ValidHeaders, k \in KickIdParams}
        \cup UNION {{Request("kickPut", h, k, BadId, b) : h \in ValidHeaders, k \in KickIdParams}
                        : b \in PutBodies}
        \cup {Request("kickList", h, BadId, BadId, EmptyBody) : h \in ValidHeaders \cup LooseHeaders}
        \cup {Request("kickGet", h, Oid(1), BadId, EmptyBody) : h \in LooseHeaders}
        \cup UNION {{Request(op, h, Oid(1), BadId, FullKick) : h \in InvalidHeaders}
                        : op \in {"kickCreate", "kickList", "kickGet", "kickDelete", "kickPut", "kickPatch"}}
        \cup UNION {{Request(op, h, Oid(1), Oid(1), [text |-> <<"a">>]) : h \in InvalidHeaders}
                        : op \in {"commentPost", "commentDelete", "commentPut"}}

\* Kick ids are never reused, so creation is capped where requests are accepted.
ReceiveKick(r) ==
    \E req \in KickRequests :
        /\ req.op = "kickCreate" => nextKickId <= MaxKicks
        /\ Receive(r, req)

InitKick ==
    /\ users = RegisteredUsers
    /\ kicks = NoKicks
    /\ nextKickId = 1
    /\ nextCommentId = 1
    /\ reqs = [r \in KickReqs |-> IdleReq]

NextKick ==
    \/ \E r \in KickReqs : ReceiveKick(r)
    \/ \E r \in KickReqs : Rejected(r)
    \/ \E r \in KickReqs : KickCreate(r)
    \/ \E r \in KickReqs : KickList(r)
    \/ \E r \in KickReqs : KickGet(r)
    \/ \E r \in KickReqs : KickDeleteStart(r)
    \/ \E r \in KickReqs : KickDeleteFinish(r)
    \/ \E r \in KickReqs : KickPutStart(r)
    \/ \E r \in KickReqs : KickPutFinish(r)

SpecKick == InitKick /\ [][NextKick]_vars

PostTexts == {<<>>, <<" ">>, <<" ", "a", " ">>}

PutTexts == {<<" ", " ">>, <<"b">>, <<"b", " ">>}

CommentBodies(texts) == {EmptyBody} \cup {[text |-> t] : t \in texts}

CommentKickIds == {Oid(1), Oid(2), BadId}

\* Sign-in of a registered account, with its password and with another.
CommentSigninBodies ==
    {[username |-> "ann", password |-> "pw1"], [username |-> "bob", password |-> "pw2"]}

CommentRequests ==
    {Request("kickGet", h, k, BadId, EmptyBody) : h \in ValidHeaders, k \in CommentKickIds}
        \cup {Request("kickList", h, BadId, BadId, EmptyBody) : h \in ValidHeaders}
        \cup {Request("signin", NoHeader, BadId, BadId, b) : b \in CommentSigninBodies}
        \cup {Request("kickDelete", h, k, BadId, EmptyBody) : h \in ValidHeaders, k \in CommentKickIds}
        \cup UNION {{Request("kickPut", h, k, BadId, b) : h \in ValidHeaders, k \in CommentKickIds}
                        : b \in {EmptyBody, [title |-> "New Title"]}}
        \cup UNION {{Request("commentPost", h, k, BadId, b) : h \in ValidHeaders, k \in CommentKickIds}
                        : b \in CommentBodies(PostTexts)}
        \cup UNION {{Request("commentDelete", h, k, c, EmptyBody) : h \in ValidHeaders, k \in CommentKickIds}
                        : c \in CommentIdParams}
        \cup UNION {UNION {{Request("commentPut", h, k, c, b) : h \in ValidHeaders, k \in CommentKickIds}
                               : c \in CommentIdParams} : b \in CommentBodies(PutTexts)}
        \cup UNION {{Request(op, h, Oid(1), Oid(1), [text |-> <<"a">>]) : h \in InvalidHeaders}
                        : op \in {"commentPost", "commentDelete", "commentPut"}}

\* Comment ids are never reused, so comment creation is capped where requests are accepted.
ReceiveComment(r) ==
    \E req \in CommentRequests :
        /\ req.op = "commentPost" => nextCommentId <= MaxComments
        /\ Receive(r, req)

\* One kick has been created, by either account, with POST /kicks.
InitComment ==
    /\ users = RegisteredUsers
    /\ \E i \in 1..Len(RegisteredUsers) :
          kicks = [n \in {1} |-> NewKick(KickData(TokenPayload(RegisteredUsers[i]), FullKick), 1)]
    /\ nextKickId = 2
    /\ nextCommentId = 1
    /\ reqs = [r \in KickReqs |-> IdleReq]

NextComment ==
    \/ \E r \in KickReqs : ReceiveComment(r)
    \/ \E r \in KickReqs : Rejected(r)
    \/ \E r \in KickReqs : Signin(r)
    \/ \E r \in KickReqs : KickList(r)
    \/ \E r \in KickReqs : KickGet(r)
    \/ \E r \in KickReqs : KickDeleteStart(r)
    \/ \E r \in KickReqs : KickDeleteFinish(r)
    \/ \E r \in KickReqs : KickPutStart(r)
    \/ \E r \in KickReqs : KickPutFinish(r)
    \/ \E r \in KickReqs : CommentPostStart(r)
    \/ \E r \in KickReqs : CommentDeleteStart(r)
    \/ \E r \in KickReqs : CommentPutStart(r)
    \/ \E r \in KickReqs : CommentSave(r)

SpecComment == InitComment /\ [][NextComment]_vars

\* Two requests in flight on the comments of one kick.
RaceReqs == {"r1", "r2"}

\* The comments a race can name: one per slot.
RaceCommentIds == {Oid(n) : n \in 1..Cardinality(RaceReqs)}

\* The owner of the kick sends the kick requests, the other account the
\* comment requests.
RaceOwner == Bearer(TokenOf(RegisteredUsers[1]))

RaceGuest == Bearer(TokenOf(RegisteredUsers[2]))

RaceRequests ==
    {Request("commentPost", RaceGuest, Oid(1), BadId, [text |-> <<"a">>])}
        \cup {Request("commentDelete", RaceGuest, Oid(1), c, EmptyBody) : c \in RaceCommentIds}
        \cup {Request("commentPut", RaceGuest, Oid(1), c, [text |-> <<"b">>]) : c \in RaceCommentIds}
        \cup {Request("kickPut", RaceOwner, Oid(1), BadId, [title |-> "New Title"]),
              Request("kickPatch", RaceOwner, Oid(1), BadId, [status |-> "Completed"]),
              Request("kickDelete", RaceOwner, Oid(1), BadId, EmptyBody)}

\* Comment ids are never reused: as many comments are created as there are slots.
ReceiveRace(r) ==
    \E req \in RaceRequests :
        /\ req.op = "commentPost" => nextCommentId <= Cardinality(RaceReqs)
        /\ Receive(r, req)

InitRace ==
    /\ users = RegisteredUsers
    /\ kicks = [n \in {1} |-> NewKick(KickData(TokenPayload(RegisteredUsers[1]), FullKick), 1)]
    /\ nextKickId = 2
    /\ nextCommentId = 1
    /\ reqs = [r \in RaceReqs |-> IdleReq]

NextRace ==
    \/ \E r \in RaceReqs : ReceiveRace(r)
    \/ \E r \in RaceReqs : KickDeleteStart(r)
    \/ \E r \in RaceReqs : KickDeleteFinish(r)
    \/ \E r \in RaceReqs : KickPutStart(r)
    \/ \E r \in RaceReqs : KickPutFinish(r)
    \/ \E r \in RaceReqs : KickPatchStart(r)
    \/ \E r \in RaceReqs : KickPatchSave(r)
    \/ \E r \in RaceReqs : CommentPostStart(r)
    \/ \E r \in RaceReqs : CommentDeleteStart(r)
    \/ \E r \in RaceReqs : CommentPutStart(r)
    \/ \E r \in RaceReqs : CommentSave(r)

SpecRace == InitRace /\ [][NextRace]_vars

\* One request at a time on a kick of ann that bob has commented: status changes,
\* updates, comments, and the creation of further kicks.
StatusKickIds == {Oid(1), Oid(2), BadId}

StatusRequests ==
    UNION {{Request("kickPatch", h, k, BadId, b) : h \in ValidHeaders, k \in StatusKickIds}
               : b \in PatchBodies}
        \cup UNION {{Request("kickPut", h, Oid(1), BadId, b) : h \in ValidHeaders}
                        : b \in {[title |-> "Mine", author |-> 2], [status |-> "In Progress"],
                                 [category |-> "Invalid"]}}
        \cup {Request("kickCreate", RaceOwner, BadId, BadId, b)
                  : b \in {Merge([status |-> "In Progress"], FullKick),
                           Merge([status |-> "Invalid"], FullKick)}}
        \cup {Request("commentPost", h, Oid(1), BadId, [text |-> <<"a">>]) : h \in ValidHeaders}
        \cup {Request("commentPut", h, Oid(1), Oid(1), [text |-> <<"b">>]) : h \in ValidHeaders}
        \cup {Request("commentDelete", h, Oid(1), Oid(1), EmptyBody) : h \in ValidHeaders}

ReceiveStatus(r) ==
    \E req \in StatusRequests :
        /\ req.op = "kickCreate" => nextKickId <= MaxKicks
        /\ req.op = "commentPost" => nextCommentId <= MaxComments
        /\ Receive(r, req)

\* ann has created a kick with POST /kicks and bob has posted a comment on it.
InitStatus ==
    /\ users = RegisteredUsers
    /\ kicks = [n \in {1} |->
                   Saved(NewKick(KickData(TokenPayload(RegisteredUsers[1]), FullKick), 1),
                         [kind |-> "push", comment |-> [_id |-> 1, text |-> <<"a">>, author |-> 2]])]
    /\ nextKickId = 2
    /\ nextCommentId = 2
    /\ reqs = [r \in KickReqs |-> IdleReq]

NextStatus ==
    \/ \E r \in KickReqs : ReceiveStatus(r)
    \/ \E r \in KickReqs : KickCreate(r)
    \/ \E r \in KickReqs : KickPutStart(r)
    \/ \E r \in KickReqs : KickPutFinish(r)
    \/ \E r \in KickReqs : KickPatchStart(r)
    \/ \E r \in KickReqs : KickPatchSave(r)
    \/ \E r \in KickReqs : CommentPostStart(r)
    \/ \E r \in KickReqs : CommentDeleteStart(r)
    \/ \E r \in KickReqs : CommentPutStart(r)
    \/ \E r \in KickReqs : CommentSave(r)

SpecStatus == InitStatus /\ [][NextStatus]_vars

\* A kick that was stored while kickSchema was the earlier revision, in which
\* description is not required: it has a title and a category and no description.
LegacyKick == [title |-> "Old Kick", category |-> "Travel"]

LegacyRequests ==
    {Request("commentPost", h, Oid(1), BadId, [text |-> <<"a">>]) : h \in ValidHeaders}
        \cup {Request("commentPut", h, Oid(1), Oid(1), [text |-> <<"b">>]) : h \in ValidHeaders}
        \cup {Request("commentDelete", h, Oid(1), Oid(1), EmptyBody) : h \in ValidHeaders}
        \cup UNION {{Request("kickPatch", h, Oid(1), BadId, b) : h \in ValidHeaders}
                        : b \in {[status |-> "Completed"], [status |-> "Invalid"]}}
        \cup UNION {{Request("kickPut", h, Oid(1), BadId, b) : h \in ValidHeaders}
                        : b \in {[description |-> "Fun"], [description |-> ""], [title |-> "New Title"],
                                 [targetDate |-> "not a date"]}}

ReceiveLegacy(r) ==
    \E req \in LegacyRequests :
        /\ req.op = "commentPost" => nextCommentId <= MaxComments
        /\ Receive(r, req)

\* The database holds a kick of ann from before the schema change.
InitLegacy ==
    /\ users = RegisteredUsers
    /\ kicks = [n \in {1} |-> NewKick(KickData(TokenPayload(RegisteredUsers[1]), LegacyKick), 1)]
    /\ nextKickId = 2
    /\ nextCommentId = 1
    /\ reqs = [r \in KickReqs |-> IdleReq]

NextLegacy ==
    \/ \E r \in KickReqs : ReceiveLegacy(r)
    \/ \E r \in KickReqs : KickPutStart(r)
    \/ \E r \in KickReqs : KickPutFinish(r)
    \/ \E r \in KickReqs : KickPatchStart(r)
    \/ \E r \in KickReqs : KickPatchSave(r)
    \/ \E r \in KickReqs : CommentPostStart(r)
    \/ \E r \in KickReqs : CommentDeleteStart(r)
    \/ \E r \in KickReqs : CommentPutStart(r)
    \/ \E r \in KickReqs : CommentSave(r)

SpecLegacy == InitLegacy /\ [][NextLegacy]_vars

\* GET /kicks with the token that a sign-up or sign-in response in the other
\* slot carries, or with a forged token.
ReceiveWithToken(r) ==
    \/ \E q \in AuthReqs \ {r} :
          /\ reqs[q].pc = "done" /\ reqs[q].resp.key = "token"
          /\ Receive(r, Request("kickList", Bearer(reqs[q].resp.val.token), BadId, BadId, EmptyBody))
    \/ Receive(r, Request("kickList", Bearer(ForgedToken), BadId, BadId, EmptyBody))

InitAuth ==
    /\ users = <<>>
    /\ kicks = NoKicks
    /\ nextKickId = 1
    /\ nextCommentId = 1
    /\ reqs = [r \in AuthReqs |-> IdleReq]

NextAuth ==
    \/ \E r \in AuthReqs : ReceiveAuth(r)
    \/ \E r \in AuthReqs : SignupStart(r)
    \/ \E r \in AuthReqs : SignupCreate(r)
    \/ \E r \in AuthReqs : Signin(r)
    \/ \E r \in AuthReqs : ReceiveWithToken(r)
    \/ \E r \in AuthReqs : Rejected(r)
    \/ \E r \in AuthReqs : KickList(r)

SpecAuth == InitAuth /\ [][NextAuth]_vars

(***************************************************************************)
(* Two requests in flight through the gate and the handlers of both        *)
(* routers, every step of a handler being taken once it can be: Node runs  *)
(* every callback that is ready and the store answers every call.          *)
(***************************************************************************)
LiveSignupBodies ==
    {[username |-> "cat", password |-> "pw1", name |-> "Ann", email |-> "c@x.io"],
     [username |-> "dan", password |-> "pw1", name |-> "Ann", email |-> "a@x.io"],
     [username |-> "ann", password |-> "pw1", name |-> "Ann", email |-> "a@x.io"],
     [username |-> "cat"]}

\* The requests of the first slot: every route, with inputs for each of its answers.
LiveMainRequests ==
    {Request("signup", NoHeader, BadId, BadId, b) : b \in LiveSignupBodies}
        \cup {Request("signin", NoHeader, BadId, BadId, [username |-> "ann", password |-> "pw1"])}
        \cup {Request("kickList", h, BadId, BadId, EmptyBody) : h \in {NoHeader, RaceGuest}}
        \cup {Request("kickGet", RaceGuest, k, BadId, EmptyBody) : k \in {Oid(1), BadId}}
        \cup {Request("kickDelete", RaceGuest, Oid(1), BadId, EmptyBody)}
        \cup {Request("kickPut", RaceOwner, Oid(1), BadId, b)
                  : b \in {[title |-> "New Title"], [category |-> "Invalid"]}}
        \cup {Request("kickPatch", RaceOwner, Oid(1), BadId, b)
                  : b \in {[status |-> "Completed"], [status |-> "Invalid"]}}
        \cup {Request("commentPost", RaceGuest, Oid(1), BadId, b)
                  : b \in {[text |-> <<"a">>], [text |-> <<" ">>]}}
        \cup {Request("commentPut", RaceGuest, Oid(1), Oid(1), [text |-> <<"b">>])}

\* The requests of the second slot: the owner's DELETE of the kick, the removal
\* of the comment and a request with an expired token.
LiveOtherRequests ==
    {Request("kickDelete", RaceOwner, Oid(1), BadId, EmptyBody),
     Request("commentDelete", RaceGuest, Oid(1), Oid(1), EmptyBody),
     Request("kickList", Bearer(ExpiredToken), BadId, BadId, EmptyBody)}

LiveRequests(r) == IF r = "r1" THEN LiveMainRequests ELSE LiveOtherRequests

\* Accounts are never deleted and comment ids never reused: one account and one
\* comment are created.
ReceiveLive(r) ==
    \E req \in LiveRequests(r) :
        /\ (req.op = "signup" /\ DOMAIN req.body = SignupFields)
              => Len(users) <= Len(RegisteredUsers)
        /\ req.op = "commentPost" => nextCommentId = 1
        /\ Receive(r, req)

\* The steps of the gate and the handlers for the request in slot r.
Handle(r) ==
    \/ Rejected(r)
    \/ SignupStart(r)
    \/ SignupCreate(r)
    \/ Signin(r)
    \/ KickList(r)
    \/ KickGet(r)
    \/ KickDeleteStart(r)
    \/ KickDeleteFinish(r)
    \/ KickPutStart(r)
    \/ KickPutFinish(r)
    \/ KickPatchStart(r)
    \/ KickPatchSave(r)
    \/ CommentPostStart(r)
    \/ CommentDeleteStart(r)
    \/ CommentPutStart(r)
    \/ CommentSave(r)

NextLive ==
    \/ \E r \in RaceReqs : ReceiveLive(r)
    \/ \E r \in RaceReqs : Handle(r)

SpecLive == InitRace /\ [][NextLive]_vars /\ \A r \in RaceReqs : WF_vars(Handle(r))

(***************************************************************************)
(* Properties.                                                             *)
(***************************************************************************)
\* The request in slot r was received with a token the gate accepts.
Authenticated(r) == reqs[r].pc = "received" /\ reqs[r].req.hdr \in ValidHeaders

\* The account identifier in the identity claim of the request in slot r.
CallerId(r) == reqs[r].req.hdr[2].payload._id

\* Slot r takes this step.
Steps(r) == reqs'[r] # reqs[r]

AnsweredWith(r, op, st) ==
    reqs[r].pc = "done" /\ reqs[r].req.op = op /\ reqs[r].resp.status = st

\* C1: every POST /kicks that answers 201 stores, on the kick it inserts, the
\* account identifier of the caller's identity claim as owner, and returns that
\* kick, whatever `author` the body carries.
C1_OwnerIsCaller ==
    [][\A r \in KickReqs :
          (Authenticated(r) /\ reqs[r].req.op = "kickCreate" /\ reqs'[r].resp.status = 201)
              => /\ DOMAIN kicks' = DOMAIN kicks \cup {nextKickId}
                 /\ nextKickId \notin DOMAIN kicks
                 /\ kicks'[nextKickId].author = CallerId(r)
                 /\ reqs'[r].resp.val = kicks'[nextKickId]]_vars

\* bob created a kick with a body that named ann as its author.
C1_Witness ==
    \E r \in KickReqs :
        /\ AnsweredWith(r, "kickCreate", 201)
        /\ reqs[r].resp.val.title = "For ann"
        /\ reqs[r].user._id = 2
        /\ reqs[r].resp.val._id \in DOMAIN kicks
        /\ kicks[reqs[r].resp.val._id].author = 2

\* C2: PUT /kicks/:id and DELETE /kicks/:id on an existing kick by an
\* authenticated caller who is not its owner leave the store as it was and
\* answer 403; the one other answer is the 400 of a PUT whose body supplies
\* nothing to update, which is decided before the kick is read.
C2_NonOwnerForbidden ==
    [][\A r \in KickReqs :
          (/\ Authenticated(r) /\ reqs[r].req.op \in {"kickPut", "kickDelete"}
           /\ Steps(r)
           /\ reqs[r].req.kickId.hex24
           /\ reqs[r].req.kickId.n \in DOMAIN kicks
           /\ kicks[reqs[r].req.kickId.n].author # CallerId(r))
              => /\ reqs'[r].pc = "done"
                 /\ kicks' = kicks
                 /\ reqs'[r].resp.status =
                        IF reqs[r].req.op = "kickPut" /\ DOMAIN reqs[r].req.body \cap PutFields = {}
                        THEN 400 ELSE 403]_vars

\* A caller who does not own the kick, which has a comment, was answered 403 to a PUT.
C2_Witness ==
    \E r \in KickReqs :
        /\ AnsweredWith(r, "kickPut", 403)
        /\ reqs[r].req.kickId.n \in DOMAIN kicks
        /\ kicks[reqs[r].req.kickId.n].author # reqs[r].user._id
        /\ kicks[reqs[r].req.kickId.n].comments # <<>>

\* The comment of the kick that the path of the request in slot r names, 0 when none.
NamedComment(r) ==
    IF /\ reqs[r].req.kickId.hex24 /\ reqs[r].req.kickId.n \in DOMAIN kicks
       /\ reqs[r].req.commentId.hex24
       /\ \E i \in 1..Len(kicks[reqs[r].req.kickId.n].comments) :
              kicks[reqs[r].req.kickId.n].comments[i]._id = reqs[r].req.commentId.n
    THEN CHOOSE i \in 1..Len(kicks[reqs[r].req.kickId.n].comments) :
              kicks[reqs[r].req.kickId.n].comments[i]._id = reqs[r].req.commentId.n
    ELSE 0

\* The text of the body is a string with a character that is not a space.
HasText(body) ==
    "text" \in DOMAIN body /\ \E i \in 1..Len(body.text) : body.text[i] # " "

\* C3: PUT (with a text that is not blank) and DELETE of an existing comment by
\* an authenticated caller who is not the comment's author answer 403 and leave
\* the store as it was, also when the caller owns the parent kick.
C3_NonAuthorForbidden ==
    [][\A r \in KickReqs :
          (/\ Authenticated(r) /\ reqs[r].req.op \in {"commentPut", "commentDelete"}
           /\ Steps(r)
           /\ NamedComment(r) # 0
           /\ kicks[reqs[r].req.kickId.n].comments[NamedComment(r)].author # CallerId(r)
           /\ reqs[r].req.op = "commentPut" => HasText(reqs[r].req.body))
              => /\ reqs'[r].pc = "done"
                 /\ reqs'[r].resp.status = 403
                 /\ kicks' = kicks]_vars

\* The owner of the kick was answered 403 to a PUT of a comment that another
\* account wrote on it.
C3_Witness ==
    \E r \in KickReqs :
        /\ AnsweredWith(r, "commentPut", 403)
        /\ NamedComment(r) # 0
        /\ kicks[reqs[r].req.kickId.n].author = reqs[r].user._id
        /\ kicks[reqs[r].req.kickId.n].comments[NamedComment(r)].author # reqs[r].user._id

\* Kick n was stored and is stored no more.
Deleted(n) == n \in 1..(nextKickId - 1) /\ n \notin DOMAIN kicks

\* C4: a DELETE /kicks/:id that answers 200 leaves no document with that id,
\* a deleted kick stays deleted, and a request received after the deletion that
\* names the deleted kick (GET of the kick; PUT with a text, or DELETE, of any
\* comment id through it) answers 404.
C4_DeleteCascades ==
    [][\A r \in KickReqs :
          /\ (At(r, "kickDelete", "delete") /\ reqs'[r].resp.status = 200)
                => reqs[r].req.kickId.n \notin DOMAIN kicks'
          /\ \A n \in 1..MaxKicks : Deleted(n) => n \notin DOMAIN kicks'
          /\ (/\ Authenticated(r) /\ Steps(r)
              /\ reqs[r].req.op \in {"kickGet", "commentPut", "commentDelete"}
              /\ reqs[r].req.kickId.hex24 /\ Deleted(reqs[r].req.kickId.n)
              /\ reqs[r].req.op = "commentPut" => HasText(reqs[r].req.body))
                => reqs'[r].pc = "done" /\ reqs'[r].resp.status = 404]_vars

\* After the kick was deleted, a DELETE of a comment that had been posted on it
\* was answered 404.
C4_Witness ==
    \E r \in KickReqs :
        /\ AnsweredWith(r, "commentDelete", 404)
        /\ Deleted(reqs[r].req.kickId.n)
        /\ reqs[r].req.commentId.hex24
        /\ reqs[r].req.commentId.n < nextCommentId

\* C5: POST /kicks with a title and a category and nothing else (the guide's
\* test body, the spec's example) answers 201 and stores a kick with status
\* "Open" and no comments.
C5_TitleAndCategorySuffice ==
    [][\A r \in KickReqs :
          (/\ Authenticated(r) /\ reqs[r].req.op = "kickCreate" /\ Steps(r)
           /\ reqs[r].req.body \in {[title |-> "Test Kick", category |-> "Travel"],
                                    [title |-> "Learn Rock Climbing", category |-> "Adventure"]})
              => /\ reqs'[r].resp.status = 201
                 /\ nextKickId \in DOMAIN kicks'
                 /\ kicks'[nextKickId].status = "Open"
                 /\ kicks'[nextKickId].comments = <<>>]_vars

\* Some stored account has the handle of the sign-up body in slot r.
HandleTaken(r) ==
    \E i \in 1..Len(users) : users[i].username = reqs[r].req.body.username

\* C6: POST /auth/signup that supplies all four fields, with a handle that a
\* stored account has, answers 409, stores no account and returns no token.
C6_TakenHandleConflicts ==
    [][\A r \in AuthReqs :
          (/\ Received(r, "signup") /\ Steps(r)
           /\ \A f \in SignupFields : f \in DOMAIN reqs[r].req.body /\ reqs[r].req.body[f] # ""
           /\ HandleTaken(r))
              => /\ reqs'[r].pc = "done"
                 /\ reqs'[r].resp.status = 409
                 /\ reqs'[r].resp.key # "token"
                 /\ users' = users]_vars

\* A sign-up was answered 409 by the handle check.
C6_Witness ==
    \E r \in AuthReqs : AnsweredWith(r, "signup", 409) /\ reqs[r].at = 36 /\ users # <<>>

\* C7: no two stored accounts have the same handle.
C7_HandlesUnique ==
    \A i, j \in 1..Len(users) : users[i].username = users[j].username => i = j

\* C8: a sign-in answered for a wrong password and a sign-in answered for a
\* handle that no account has carry the same status and the same body.
C8_SameRefusal ==
    \A r1, r2 \in AuthReqs :
        (/\ AnsweredWith(r1, "signin", reqs[r1].resp.status) /\ reqs[r1].at = 110
         /\ AnsweredWith(r2, "signin", reqs[r2].resp.status) /\ reqs[r2].at = 97)
            => /\ reqs[r1].resp = reqs[r2].resp
               /\ reqs[r1].resp.status = 401

\* Both refusals have been given.
C8_Witness ==
    \E r1, r2 \in AuthReqs :
        /\ AnsweredWith(r1, "signin", 401) /\ reqs[r1].at = 110
        /\ AnsweredWith(r2, "signin", 401) /\ reqs[r2].at = 97

\* The mutable fields of a kick.
MutableFields ==
    {"title", "description", "category", "location", "targetDate", "completionDate", "status"}

\* C9: PUT /kicks/:id by an authenticated caller with a body that supplies no
\* mutable field answers 400 and leaves the store as it was, whatever the id.
C9_EmptyUpdateRejected ==
    [][\A r \in KickReqs :
          (/\ Authenticated(r) /\ reqs[r].req.op = "kickPut" /\ Steps(r)
           /\ DOMAIN reqs[r].req.body \cap MutableFields = {})
              => /\ reqs'[r].pc = "done"
                 /\ reqs'[r].resp.status = 400
                 /\ kicks' = kicks]_vars

\* A PUT on a stored kick by its owner was answered 400 for want of a field.
C9_Witness ==
    \E r \in KickReqs :
        /\ AnsweredWith(r, "kickPut", 400) /\ reqs[r].at = 152
        /\ reqs[r].req.kickId.n \in DOMAIN kicks
        /\ kicks[reqs[r].req.kickId.n].author = reqs[r].user._id

\* C10: POST /kicks by an authenticated caller with a category outside the
\* enumeration answers 400 and leaves the stored kicks as they were.
C10_BadCategoryRejected ==
    [][\A r \in KickReqs :
          (/\ Authenticated(r) /\ reqs[r].req.op = "kickCreate" /\ Steps(r)
           /\ "category" \in DOMAIN reqs[r].req.body
           /\ reqs[r].req.body.category \notin CategoryEnum)
              => /\ reqs'[r].pc = "done"
                 /\ reqs'[r].resp.status = 400
                 /\ kicks' = kicks
                 /\ nextKickId' = nextKickId]_vars

\* A create was refused by the store's validation of the category alone.
C10_Witness ==
    \E r \in KickReqs :
        /\ AnsweredWith(r, "kickCreate", 400) /\ reqs[r].at = 45
        /\ reqs[r].resp.val = <<"Validation failed", {"category"}>>

\* C11: a POST /kicks/:id/comments that saves while the kick is stored answers
\* 201 and appends its comment to the list the store holds at that moment,
\* whether the other request has yet to save its own comment or has saved it
\* since this request read the kick; the other request is not disturbed.
C11_ConcurrentPostsBothKept ==
    [][\A r, q \in RaceReqs :
          (/\ r # q
           /\ At(r, "commentPost", "save") /\ Steps(r)
           /\ reqs[q].req.op = "commentPost" /\ reqs[q].pc \in {"save", "done"}
           /\ reqs[q].req.kickId = reqs[r].req.kickId
           /\ reqs[r].req.kickId.n \in DOMAIN kicks)
              => /\ reqs'[r].pc = "done" /\ reqs'[r].resp.status = 201
                 /\ kicks'[reqs[r].req.kickId.n].comments =
                        Append(kicks[reqs[r].req.kickId.n].comments, reqs[r].loc.comment)
                 /\ reqs'[q] = reqs[q]]_vars

\* Both requests were answered 201 and the list holds both comments, the one
\* that was read first saved last.
C11_Witness ==
    /\ \A r \in RaceReqs : AnsweredWith(r, "commentPost", 201)
    /\ 1 \in DOMAIN kicks
    /\ Len(kicks[1].comments) = 2
    /\ kicks[1].comments[1]._id > kicks[1].comments[2]._id

\* The routes behind router.use(verifyToken).
KickOps ==
    {"kickCreate", "kickList", "kickGet", "kickDelete", "kickPut", "kickPatch",
     "commentPost", "commentDelete", "commentPut"}

\* The header is missing, has no token part, or its token has a signature that
\* was not made with the secret, or has expired.
GateFails(hdr) ==
    \/ hdr = <<>>
    \/ Len(hdr) < 2
    \/ Len(hdr) >= 2 /\ (hdr[2].signedWith # JWT_SECRET \/ "exp" \in DOMAIN hdr[2])

\* C12: a request to a /kicks route whose header is missing or malformed, or
\* whose token is invalid or expired, is answered 401 by the gate in the one
\* step it takes: no identity is attached to it and the store is as it was.
C12_GateFirst ==
    [][\A r \in KickReqs :
          (/\ reqs[r].pc = "received" /\ reqs[r].req.op \in KickOps /\ Steps(r)
           /\ GateFails(reqs[r].req.hdr))
              => /\ reqs'[r].pc = "done"
                 /\ reqs'[r].resp.status = 401
                 /\ reqs'[r].user = EmptyBody
                 /\ UNCHANGED <<users, kicks, nextKickId, nextCommentId>>]_vars

\* A DELETE of a stored kick with an expired token was answered 401 and the
\* kick is still stored.
C12_Witness ==
    \E r \in KickReqs :
        /\ AnsweredWith(r, "kickDelete", 401) /\ reqs[r].at = 30
        /\ reqs[r].req.kickId.n \in DOMAIN kicks

\* C13: every response with a status of 400 or more carries its message under
\* the key `error`.
C13_ErrorKey ==
    \A r \in KickReqs :
        (reqs[r].pc = "done" /\ reqs[r].resp.status >= 400) => reqs[r].resp.key = "error"

\* The routes with a comment id in the path.
CommentIdOps == {"commentDelete", "commentPut"}

\* C14: a request by an authenticated caller with a kick id, or a comment id,
\* that is not 24 hexadecimal characters is answered 400 in the one step it
\* takes, the store being as it was.
C14_BadParamRejected ==
    [][\A r \in KickReqs :
          (/\ Authenticated(r) /\ Steps(r)
           /\ reqs[r].req.op \in {"kickGet", "kickDelete", "kickPut", "commentPost"} \cup CommentIdOps
           /\ \/ ~reqs[r].req.kickId.hex24
              \/ reqs[r].req.op \in CommentIdOps /\ ~reqs[r].req.commentId.hex24)
              => /\ reqs'[r].pc = "done"
                 /\ reqs'[r].resp.status = 400
                 /\ kicks' = kicks]_vars

\* The ids of the kicks in a list response, in the order of the list.
ListedIds(resp) == [i \in 1..Len(resp.val) |-> resp.val[i]._id]

\* C15: GET /kicks by an authenticated caller answers 200 with the stored kicks
\* whose owner is the caller, each once and no other, the one created later
\* before the one created earlier.
C15_ListOwnNewestFirst ==
    [][\A r \in KickReqs :
          (Authenticated(r) /\ reqs[r].req.op = "kickList" /\ Steps(r))
              => /\ reqs'[r].pc = "done" /\ reqs'[r].resp.status = 200
                 /\ {ListedIds(reqs'[r].resp)[i] : i \in 1..Len(reqs'[r].resp.val)}
                        = {n \in DOMAIN kicks : kicks[n].author = CallerId(r)}
                 /\ \A i, j \in 1..Len(reqs'[r].resp.val) :
                        i < j => kicks[ListedIds(reqs'[r].resp)[i]].createdAt
                                     > kicks[ListedIds(reqs'[r].resp)[j]].createdAt
                 /\ \A i \in 1..Len(reqs'[r].resp.val) :
                        /\ reqs'[r].resp.val[i].title = kicks[ListedIds(reqs'[r].resp)[i]].title
                        /\ reqs'[r].resp.val[i].author._id = CallerId(r)
                 /\ kicks' = kicks]_vars

\* A caller was listed the two kicks they created.
C15_Witness ==
    \E r \in KickReqs :
        /\ AnsweredWith(r, "kickList", 200)
        /\ Len(reqs[r].resp.val) = 2
        /\ reqs[r].resp.val[1]._id > reqs[r].resp.val[2]._id

\* The accounts that the response in slot r carries.
AccountsIn(r) ==
    CASE reqs[r].resp.key = "token" -> {reqs[r].resp.val.user}
      [] reqs[r].at = 91 ->
            {reqs[r].resp.val.author}
                \cup {reqs[r].resp.val.comments[i].author : i \in 1..Len(reqs[r].resp.val.comments)}
      [] reqs[r].at = 61 -> {reqs[r].resp.val[i].author : i \in 1..Len(reqs[r].resp.val)}
      [] OTHER -> {}

IsTrimOf(t, s) ==
    /\ t # <<>> /\ t[1] # " " /\ t[Len(t)] # " "
    /\ \E a \in 0..Len(s) :
          /\ a + Len(t) <= Len(s)
          /\ SubSeq(s, a + 1, a + Len(t)) = t
          /\ \A k \in 1..Len(s) : (k <= a \/ k > a + Len(t)) => s[k] = " "

\* C17: POST /kicks/:id/comments on a stored kick by an authenticated caller,
\* owner or not, with a text that is not blank goes on to save a comment whose
\* author is the caller and whose text is the trimmed input; the save answers
\* 201 with that comment and appends it to the list, changing nothing else.
C17_AnyCallerComments ==
    [][\A r \in KickReqs :
          /\ (/\ Authenticated(r) /\ reqs[r].req.op = "commentPost" /\ Steps(r)
              /\ reqs[r].req.kickId.hex24 /\ reqs[r].req.kickId.n \in DOMAIN kicks
              /\ HasText(reqs[r].req.body))
                => /\ reqs'[r].pc = "save"
                   /\ reqs'[r].loc.comment.author = CallerId(r)
                   /\ IsTrimOf(reqs'[r].loc.comment.text, reqs[r].req.body.text)
                   /\ kicks' = kicks
          /\ (At(r, "commentPost", "save") /\ Steps(r))
                => /\ reqs'[r].pc = "done" /\ reqs'[r].resp.status = 201
                   /\ reqs'[r].resp.val.text = reqs[r].loc.comment.text
                   /\ reqs'[r].resp.val.author = reqs[r].loc.comment.author
                   /\ DOMAIN kicks' = DOMAIN kicks
                   /\ \A n \in DOMAIN kicks :
                         IF n = reqs[r].req.kickId.n
                         THEN /\ kicks'[n].comments = Append(kicks[n].comments, reqs[r].loc.comment)
                              /\ \A f \in DOMAIN kicks[n] \ {"comments", "version"} :
                                    kicks'[n][f] = kicks[n][f]
                         ELSE kicks'[n] = kicks[n]]_vars

\* A caller who does not own the kick posted " a " and the last comment of the
\* kick is theirs, with the text "a".
C17_Witness ==
    \E r \in KickReqs :
        /\ AnsweredWith(r, "commentPost", 201)
        /\ reqs[r].req.kickId.n \in DOMAIN kicks
        /\ kicks[reqs[r].req.kickId.n].author # reqs[r].user._id
        /\ kicks[reqs[r].req.kickId.n].comments # <<>>
        /\ LET cs == kicks[reqs[r].req.kickId.n].comments
           IN cs[Len(cs)].author = reqs[r].user._id /\ cs[Len(cs)].text = <<"a">>

\* C18: GET /kicks/:id of a stored kick by any authenticated caller answers
\* 200 with that kick, and GET /kicks lists a caller no kick that another
\* account owns.
C18_GetNotOwnerRestricted ==
    [][\A r \in KickReqs :
          /\ (/\ Authenticated(r) /\ reqs[r].req.op = "kickGet" /\ Steps(r)
              /\ reqs[r].req.kickId.hex24 /\ reqs[r].req.kickId.n \in DOMAIN kicks)
                => /\ reqs'[r].pc = "done" /\ reqs'[r].resp.status = 200
                   /\ reqs'[r].resp.val._id = reqs[r].req.kickId.n
                   /\ reqs'[r].resp.val.title = kicks[reqs[r].req.kickId.n].title
          /\ (Authenticated(r) /\ reqs[r].req.op = "kickList" /\ Steps(r))
                => \A i \in 1..Len(reqs'[r].resp.val) :
                       kicks[reqs'[r].resp.val[i]._id].author = CallerId(r)]_vars

\* A caller was answered 200 with a kick that another account owns.
C18_Witness ==
    \E r \in KickReqs :
        /\ AnsweredWith(r, "kickGet", 200)
        /\ reqs[r].resp.val.author._id # reqs[r].user._id

\* C19: a request whose header is present and is not the two parts `Bearer`
\* and a token is answered 401 by the gate.
C19_MalformedHeaderRejected ==
    [][\A r \in KickReqs :
          (/\ reqs[r].pc = "received" /\ reqs[r].req.op \in KickOps /\ Steps(r)
           /\ reqs[r].req.hdr # <<>>
           /\ ~(Len(reqs[r].req.hdr) = 2 /\ reqs[r].req.hdr[1] = "Bearer"))
              => /\ reqs'[r].pc = "done"
                 /\ reqs'[r].resp.status = 401]_vars

\* C20: PUT /kicks/:id of a stored kick by its owner, with a body that supplies
\* mutable fields only and at least one, goes on to update exactly the supplied
\* fields.
C20_AnyMutableSubset ==
    [][\A r \in KickReqs :
          (/\ Authenticated(r) /\ reqs[r].req.op = "kickPut" /\ Steps(r)
           /\ reqs[r].req.kickId.hex24 /\ reqs[r].req.kickId.n \in DOMAIN kicks
           /\ kicks[reqs[r].req.kickId.n].author = CallerId(r)
           /\ DOMAIN reqs[r].req.body # {}
           /\ DOMAIN reqs[r].req.body \subseteq MutableFields)
              => /\ reqs'[r].pc = "update"
                 /\ reqs'[r].loc.updateFields = reqs[r].req.body]_vars

\* C21: every stored kick has a status that is `Open` or `Completed` and a
\* category of the category enumeration, after any creation, update or status
\* change.
C21_StatusOpenOrCompleted ==
    \A n \in DOMAIN kicks :
        kicks[n].status \in {"Open", "Completed"} /\ kicks[n].category \in CategoryEnum

C22_WitnessForbidden ==
    \E r \in KickReqs :
        /\ AnsweredWith(r, "kickPatch", 403)
        /\ reqs[r].req.kickId.n \in DOMAIN kicks
        /\ kicks[reqs[r].req.kickId.n].author # reqs[r].user._id

\* C24: no step changes the owner of a kick that is stored before and after it.
C24_OwnerNeverChanges ==
    [][\A n \in DOMAIN kicks \cap DOMAIN kicks' : kicks'[n].author = kicks[n].author]_vars

\* The owner was answered 200 to a PUT whose body named another account as
\* author: the title is the new one and the owner is the one the kick was
\* created with.
C24_Witness ==
    \E r \in KickReqs :
        /\ AnsweredWith(r, "kickPut", 200)
        /\ reqs[r].resp.val.title = "Mine"
        /\ reqs[r].req.kickId.n \in DOMAIN kicks
        /\ kicks[reqs[r].req.kickId.n].title = "Mine"
        /\ kicks[reqs[r].req.kickId.n].author = 1
        /\ reqs[r].user._id = 1

\* The document fails a `required` validator or an `enum` validator of kickSchema.
FailsValidation(doc) ==
    \/ \E f \in {"title", "description", "category", "status"} : f \notin DOMAIN doc \/ doc[f] = ""
    \/ "category" \in DOMAIN doc /\ doc.category \notin CategoryEnum
    \/ "status" \in DOMAIN doc /\ doc.status \notin StatusEnum

\* A field of the update is an empty value for a required path, a value outside
\* the enumeration of its path, or a value that is no date for a Date path.
FailsUpdateValidation(upd) ==
    \/ \E f \in DOMAIN upd \cap {"title", "description", "category", "status"} : upd[f] = ""
    \/ "category" \in DOMAIN upd /\ upd.category \notin CategoryEnum
    \/ "status" \in DOMAIN upd /\ upd.status \notin StatusEnum
    \/ \E f \in DOMAIN upd \cap {"targetDate", "completionDate"} : upd[f] = "not a date"

\* C23: a handler whose write the store rejects with a validation failure
\* answers 400: a save (comment creation, update, deletion, status change) of a
\* document that fails validation, and an update whose fields fail validation
\* or cannot be cast to the type of their path.
C23_ValidationFailureIs400 ==
    [][\A r \in KickReqs :
          /\ (reqs[r].pc = "save" /\ Steps(r) /\ FailsValidation(reqs[r].loc.doc))
                => reqs'[r].resp.status = 400
          /\ (/\ At(r, "kickPut", "update") /\ Steps(r)
              /\ FailsUpdateValidation(reqs[r].loc.updateFields))
                => reqs'[r].resp.status = 400]_vars

\* The comments of all stored kicks.
StoredComments(ks) == UNION {{ks[n].comments[i] : i \in 1..Len(ks[n].comments)} : n \in DOMAIN ks}

\* C25: every step that changes the store leaves every stored comment with a
\* text that is not empty and neither starts nor ends with a space; a stored
\* comment keeps its author, and a comment that a step adds has as author the
\* identity attached to the request that takes the step; POST and PUT of a
\* comment with a text that is missing, empty or all spaces answer 400 and
\* leave the store as it was.
C25_CommentsWellFormed ==
    [][/\ kicks' # kicks =>
             /\ \A c \in StoredComments(kicks') :
                   c.text # <<>> /\ c.text[1] # " " /\ c.text[Len(c.text)] # " "
             /\ \A c \in StoredComments(kicks), d \in StoredComments(kicks') :
                   c._id = d._id => d.author = c.author
             /\ \A r \in KickReqs : \A d \in StoredComments(kicks') :
                   (Steps(r) /\ \A c \in StoredComments(kicks) : c._id # d._id)
                       => d.author = reqs[r].user._id /\ reqs[r].req.op = "commentPost"
       /\ \A r \in KickReqs :
             (/\ Authenticated(r) /\ reqs[r].req.op \in {"commentPost", "commentPut"}
              /\ Steps(r) /\ ~HasText(reqs[r].req.body))
                 => /\ reqs'[r].pc = "done" /\ reqs'[r].resp.status = 400
                    /\ kicks' = kicks]_vars

\* A PUT of a stored comment by its author with a text of spaces was
\* answered 400, and the comment has the text it was given when posted as " a ".
C25_Witness ==
    \E r \in KickReqs :
        /\ AnsweredWith(r, "commentPut", 400) /\ reqs[r].at = 293
        /\ NamedComment(r) # 0
        /\ LET c == kicks[reqs[r].req.kickId.n].comments[NamedComment(r)]
           IN c.author = reqs[r].user._id /\ c.text = <<"a">>

\* C26: a request that carries the token of a sign-up or sign-in response passes
\* the gate, and the identity attached to it is the identifier and the handle
\* of the account of that response, which is a stored account.
C26_TokenCarriesAccount ==
    [][\A r, q \in AuthReqs :
          (/\ r # q
           /\ reqs[q].pc = "done" /\ reqs[q].resp.key = "token"
           /\ reqs[r].pc = "received" /\ reqs[r].req.op = "kickList"
           /\ reqs[r].req.hdr = <<"Bearer", reqs[q].resp.val.token>>
           /\ Steps(r))
              => /\ reqs'[r].pc = "done" /\ reqs'[r].resp.status = 200
                 /\ reqs'[r].user = [_id |-> reqs[q].resp.val.user._id,
                                     username |-> reqs[q].resp.val.user.username]
                 /\ \E i \in 1..Len(users) :
                       /\ users[i]._id = reqs'[r].user._id
                       /\ users[i].username = reqs'[r].user.username]_vars

\* A GET /kicks with the token of a sign-in response was answered 200, with the
\* account of that response attached.
C26_Witness ==
    \E r, q \in AuthReqs :
        /\ r # q
        /\ AnsweredWith(q, "signin", 200) /\ reqs[q].resp.key = "token"
        /\ AnsweredWith(r, "kickList", 200)
        /\ reqs[r].user._id = reqs[q].resp.val.user._id
        /\ reqs[r].user.username = reqs[q].resp.val.user.username

\* C27: a POST /kicks/:id/comments that saves after the owner's PUT or PATCH has
\* changed the kick it read answers 201, appends its comment, and leaves every
\* other field of the stored kick, the owner's new values among them, as the
\* store holds it.
C27_CommentSaveKeepsOwnerWrite ==
    [][\A r \in RaceReqs :
          (/\ At(r, "commentPost", "save") /\ Steps(r)
           /\ reqs[r].req.kickId.n \in DOMAIN kicks
           /\ \/ kicks[reqs[r].req.kickId.n].title # reqs[r].loc.doc.title
              \/ kicks[reqs[r].req.kickId.n].status # reqs[r].loc.doc.status)
              => /\ reqs'[r].pc = "done" /\ reqs'[r].resp.status = 201
                 /\ kicks'[reqs[r].req.kickId.n].comments =
                        Append(kicks[reqs[r].req.kickId.n].comments, reqs[r].loc.comment)
                 /\ \A f \in DOMAIN kicks[reqs[r].req.kickId.n] \ {"comments", "version"} :
                       kicks'[reqs[r].req.kickId.n][f] = kicks[reqs[r].req.kickId.n][f]]_vars

\* The comment creation has read the kick with its first title and has yet to
\* save; the owner's PUT has since been answered 200 and the stored kick has
\* the new title.
C27_Witness ==
    \E r, q \in RaceReqs :
        /\ At(r, "commentPost", "save")
        /\ reqs[r].loc.doc.title = "Test Kick"
        /\ AnsweredWith(q, "kickPut", 200)
        /\ reqs[q].resp.key = "kick" /\ reqs[q].resp.val.title = "New Title"
        /\ 1 \in DOMAIN kicks
        /\ kicks[1].title = "New Title"

\* C28: a PUT /kicks/:id that answers 200 answers with the stored state of a
\* kick that exists, and a PUT whose kick has been deleted since its ownership
\* check answers 404.
C28_PutAfterDeleteNotFound ==
    [][\A r \in RaceReqs :
          (At(r, "kickPut", "update") /\ Steps(r))
              => /\ reqs'[r].resp.status = 200
                       => /\ reqs[r].req.kickId.n \in DOMAIN kicks'
                          /\ reqs'[r].resp.val = kicks'[reqs[r].req.kickId.n]
                 /\ reqs[r].req.kickId.n \notin DOMAIN kicks => reqs'[r].resp.status = 404]_vars

\* C29: a kick that has been deleted is not stored again by any step, and a
\* save (of a comment creation, update or deletion, or of a status change) by a
\* request that read the kick before its deletion leaves the store as it is.
C29_DeletionPermanent ==
    [][/\ \A n \in 1..(nextKickId - 1) : n \notin DOMAIN kicks => n \notin DOMAIN kicks'
       /\ \A r \in RaceReqs :
             (reqs[r].pc = "save" /\ Steps(r) /\ reqs[r].req.kickId.n \notin DOMAIN kicks)
                 => kicks' = kicks]_vars

\* The kick was deleted while a comment creation that had read it was in
\* flight: the DELETE was answered 200, the save failed, the kick is not stored.
C29_Witness ==
    \E r, q \in RaceReqs :
        /\ AnsweredWith(q, "kickDelete", 200)
        /\ AnsweredWith(r, "commentPost", 500) /\ reqs[r].at = 237
        /\ Deleted(1)

\* The request in slot r is in the gate or in a handler.
InFlight(r) == reqs[r].pc \notin {"idle", "done"}

====
